---- MODULE Spec2Model ----
(***************************************************************************)
(* The banking e-mail automation agent: the classification-and-action      *)
(* decision core (src/src/llm_agent.py, src/src/classifier.py), the        *)
(* evidence extraction (src/src/ocr_engine.py), the response composer      *)
(* (src/src/response_generator.py) and the batch runs of the pipeline      *)
(* (src/pipeline.py) and of the dashboard (src/app.py).                    *)
(*                                                                         *)
(* Specifications.  Spec: one e-mail through classification and the two    *)
(* decision functions.  SpecDecision: the decision functions on any        *)
(* classification.  SpecCalls: single calls of the pure functions, and of  *)
(* main as a function of the e-mail directory (src/src/email_processor.py).*)
(* SpecRubric: responses evaluated one after another.  SpecBatch:          *)
(* process_all_emails of the pipeline, step by step.  SpecDashboard: the   *)
(* dashboard's process_all_emails, e-mail by e-mail, a run stopped between *)
(* two e-mails, and the analytics tab.                                     *)
(*                                                                         *)
(* Conventions.                                                            *)
(*  - A Python value that may be None is a sequence of length at most one: *)
(*    None is <<>> and a present value x is <<x>>.                         *)
(*  - A confidence is an integer number of hundredths (0.6 is 60).  Every  *)
(*    confidence of the model is a whole number of hundredths and every    *)
(*    confidence the coercion multiplies by 0.7 is a whole number of       *)
(*    tenths, so the product and the ".2f" rendering are exact.            *)
(*  - A completion text is the sequence of its stripped lines; the empty   *)
(*    sequence is the empty string.  A line is [key, val]: the prefix the  *)
(*    parser tests with startswith, and the stripped rest of the line.     *)
(*  - Response bodies and document texts are strings; lower(), slicing,    *)
(*    "in", split() and the regular expressions are computed on their      *)
(*    characters.                                                          *)
(*  - A float parsed from a document is num / 10^exp without trailing      *)
(*    zeros; an average is the fraction num / den.                         *)
(*  - An exception raised by a callee of process_email is a fact of the    *)
(*    e-mail's environment (fault), as are the answers of the two external *)
(*    calls.                                                               *)
(***************************************************************************)
EXTENDS Integers, Sequences, FiniteSets, TLC

\* One e-mail through the classification policy and the decision functions.
VARIABLES pc, email, response, upstream, classification, raised, escalation, action

\* The last call of a pure function of the repository: [fn, arg, ret].
VARIABLES call

\* A batch run: who runs it, the e-mails with what their environment does,
\* the loop index, the position inside the e-mail in hand, its partial
\* result, the outcome list, the summary computed from it, the rows of the
\* database and the dashboard's st.session_state.processed_emails.
VARIABLES runner, batch, idx, step, cur, results, summary, db, processed_emails

coreVars == <<pc, email, response, upstream, classification, raised, escalation, action>>

batchVars == <<runner, batch, idx, step, cur, results, summary, db, processed_emails>>

vars == <<coreVars, call, batchVars>>

None == <<>>

Some(x) == <<x>>

(* ------------------------------ bounds -------------------------------- *)

\* Longest completion text, in lines.
MaxLines == 2

\* The confidences handed directly to the decision functions are
\* 5 * k hundredths for k in -MaxNegSteps .. MaxConfSteps.
MaxNegSteps == 2

MaxConfSteps == 24

(* ------------------------- program constants -------------------------- *)

INTENT_CATEGORIES ==
    {"loan_request", "kyc_update", "account_issue", "fraud_complaint", "general_inquiry"}

\* classifier.py:80, max(0.5, ...)
CoercionFloor == 50

\* classifier.py:80, confidence * 0.7, in tenths
CoercionFactorTenths == 7

\* classifier.py:164, confidence < 0.6
EscalateConfThreshold == 60

\* The action cascade's threshold drifted away from the escalation cascade's.
DriftedConfThreshold == EscalateConfThreshold - 10

\* llm_agent.py:263, confidence < 0.6
ActionConfThreshold == 60

(* ------------------------------ inputs -------------------------------- *)

\* email_data.get('priority'): a valid priority, a value outside the
\* vocabulary, or no priority key at all.
Priorities == {"critical", "high", "medium", "low", "urgent"}

Emails == [priority : {None} \cup {Some(p) : p \in Priorities}]

\* Labels the external classifier may put after "INTENT:".
LabelTokens == INTENT_CATEGORIES \cup {"LOAN_REQUEST", "unknown", "", "refund_request"}

\* Texts the external classifier may put after "CONFIDENCE:".
ConfidenceTokens == {"-0.3", "0.0", "0.6", "0.8", "1.5", "high"}

Lines ==
    [key : {"INTENT:"}, val : LabelTokens]
    \cup [key : {"CONFIDENCE:"}, val : ConfidenceTokens]
    \cup [key : {"SUB_CATEGORY:"}, val : {"home loan", "None"}]
    \cup [key : {"REASONING:"}, val : {"Customer asks for a loan", ""}]
    \cup [key : {"intent:"}, val : {"loan_request"}]

Texts == UNION {[1..n -> Lines] : n \in 0..MaxLines}

\* What the OpenAI call of generate_completion can do.
Outcomes ==
    [kind : {"no_client", "api_error", "no_content"}, text : {<<>>}]
    \cup [kind : {"text"}, text : Texts]

ConfGrid == {5 * k : k \in (0 - MaxNegSteps)..MaxConfSteps}

\* Classification dicts handed directly to should_escalate / determine_action.
GivenClassifications ==
    [intent : INTENT_CATEGORIES \cup {"unknown", "refund_request"},
     confidence : ConfGrid,
     sub_category : {None},
     reasoning : {""}]

(* --------------------------- pure functions --------------------------- *)

\* str.lower() on the label tokens.
Lower(s) ==
    CASE s = "LOAN_REQUEST" -> "loan_request"
      [] s = "None" -> "none"
      [] OTHER -> s

\* Whether float(tok) returns; it raises ValueError otherwise.
IsFloatLiteral(tok) == tok \in {"-0.3", "0.0", "0.6", "0.8", "1.5"}

\* float(tok), in hundredths.
FloatOf(tok) ==
    CASE tok = "-0.3" -> 0 - 30
      [] tok = "0.0" -> 0
      [] tok = "0.6" -> 60
      [] tok = "0.8" -> 80
      [] tok = "1.5" -> 150

Max(a, b) == IF a >= b THEN a ELSE b

\* LLMAgent.generate_completion: None without a client; any exception of the
\* API call or of len(completion) is caught and turned into None.
generate_completion(outcome) ==
    CASE outcome.kind = "no_client" -> [raised |-> FALSE, value |-> None]
      [] outcome.kind = "api_error" -> [raised |-> FALSE, value |-> None]
      [] outcome.kind = "no_content" -> [raised |-> FALSE, value |-> None]
      [] outcome.kind = "text" -> [raised |-> FALSE, value |-> Some(outcome.text)]

\* Python truthiness of an Optional[str].
Falsy(r) == r = None \/ r = Some(<<>>)

ParseDefault ==
    [intent |-> "unknown", confidence |-> 0, sub_category |-> None, reasoning |-> ""]

\* The loop of _parse_classification_response.  A ValueError of float() leaves
\* the loop; the except clause logs and the result built so far is returned.
RECURSIVE ParseLines(_, _)
ParseLines(lines, result) ==
    IF lines = <<>> THEN result
    ELSE LET line == Head(lines)
             rest == Tail(lines)
         IN CASE line.key = "INTENT:" ->
                     ParseLines(rest, [result EXCEPT !.intent = Lower(line.val)])
              [] line.key = "CONFIDENCE:" ->
                     IF IsFloatLiteral(line.val)
                     THEN ParseLines(rest, [result EXCEPT !.confidence = FloatOf(line.val)])
                     ELSE result
              [] line.key = "SUB_CATEGORY:" ->
                     ParseLines(rest,
                         [result EXCEPT !.sub_category =
                             IF Lower(line.val) # "none" THEN Some(line.val) ELSE None])
              [] line.key = "REASONING:" ->
                     ParseLines(rest, [result EXCEPT !.reasoning = line.val])
              [] OTHER -> ParseLines(rest, result)

_parse_classification_response(text) == ParseLines(text, ParseDefault)

\* LLMAgent.classify_intent, from the value generate_completion returned.
classify_intent(resp) ==
    IF Falsy(resp)
    THEN [intent |-> "unknown", confidence |-> 0, sub_category |-> None,
          reasoning |-> "Failed to classify"]
    ELSE _parse_classification_response(resp[1])

\* The penalty applied as a boost: confidence * 1.3.
AttenuateBoost(c) == (c * 13) \div 10

\* confidence * 0.7
Attenuate(c) == (c * CoercionFactorTenths) \div 10

\* classify without the validation of the label.
classify_unvalidated(result) == result

\* classify repairing the label and keeping the upstream confidence.
classify_keep_confidence(result) ==
    IF result.intent \notin INTENT_CATEGORIES
    THEN [result EXCEPT !.intent = "general_inquiry"]
    ELSE result

\* IntentClassifier.classify, from the dict classify_intent returned.
classify(result) ==
    IF result.intent \notin INTENT_CATEGORIES
    THEN [result EXCEPT !.intent = "general_inquiry",
                        !.confidence = Max(CoercionFloor, Attenuate(result.confidence))]
    ELSE result

\* email_data.get('priority', 'medium')
GetPriority(email_data) ==
    IF email_data.priority = None THEN "medium" ELSE email_data.priority[1]

\* should_escalate with the confidence gate after the domain rules.
should_escalate_domain_first(cls, email_data) ==
    LET intent == cls.intent
        confidence == cls.confidence
        priority == GetPriority(email_data)
    IN IF priority = "critical"
       THEN [escalate |-> TRUE, reason |-> <<"Critical priority email">>]
       ELSE IF intent = "fraud_complaint"
       THEN [escalate |-> TRUE, reason |-> <<"Fraud complaint requires immediate review">>]
       ELSE IF intent = "loan_request"
       THEN [escalate |-> TRUE, reason |-> <<"Loan application requires specialist review">>]
       ELSE IF intent = "account_issue" /\ priority = "high"
       THEN [escalate |-> TRUE, reason |-> <<"High priority account issue">>]
       ELSE IF confidence < EscalateConfThreshold
       THEN [escalate |-> TRUE, reason |-> <<"Low confidence classification", confidence>>]
       ELSE [escalate |-> FALSE, reason |-> <<"Standard processing">>]

\* should_escalate with the fraud rule before the critical-priority rule.
should_escalate_fraud_first(cls, email_data) ==
    LET intent == cls.intent
        confidence == cls.confidence
        priority == GetPriority(email_data)
    IN IF confidence < EscalateConfThreshold
       THEN [escalate |-> TRUE, reason |-> <<"Low confidence classification", confidence>>]
       ELSE IF intent = "fraud_complaint"
       THEN [escalate |-> TRUE, reason |-> <<"Fraud complaint requires immediate review">>]
       ELSE IF priority = "critical"
       THEN [escalate |-> TRUE, reason |-> <<"Critical priority email">>]
       ELSE IF intent = "loan_request"
       THEN [escalate |-> TRUE, reason |-> <<"Loan application requires specialist review">>]
       ELSE IF intent = "account_issue" /\ priority = "high"
       THEN [escalate |-> TRUE, reason |-> <<"High priority account issue">>]
       ELSE [escalate |-> FALSE, reason |-> <<"Standard processing">>]

\* should_escalate escalating every high-priority e-mail, whatever its intent.
should_escalate_any_high(cls, email_data) ==
    LET intent == cls.intent
        confidence == cls.confidence
        priority == GetPriority(email_data)
    IN IF confidence < EscalateConfThreshold
       THEN [escalate |-> TRUE, reason |-> <<"Low confidence classification", confidence>>]
       ELSE IF priority = "critical"
       THEN [escalate |-> TRUE, reason |-> <<"Critical priority email">>]
       ELSE IF intent = "fraud_complaint"
       THEN [escalate |-> TRUE, reason |-> <<"Fraud complaint requires immediate review">>]
       ELSE IF intent = "loan_request"
       THEN [escalate |-> TRUE, reason |-> <<"Loan application requires specialist review">>]
       ELSE IF priority = "high"
       THEN [escalate |-> TRUE, reason |-> <<"High priority account issue">>]
       ELSE [escalate |-> FALSE, reason |-> <<"Standard processing">>]

\* IntentClassifier.should_escalate.  A reason is the sequence of its parts:
\* the fixed text and, for the low-confidence reason, the confidence shown.
should_escalate(cls, email_data) ==
    LET intent == cls.intent
        confidence == cls.confidence
        priority == GetPriority(email_data)
    IN IF confidence < EscalateConfThreshold
       THEN [escalate |-> TRUE, reason |-> <<"Low confidence classification", confidence>>]
       ELSE IF priority = "critical"
       THEN [escalate |-> TRUE, reason |-> <<"Critical priority email">>]
       ELSE IF intent = "fraud_complaint"
       THEN [escalate |-> TRUE, reason |-> <<"Fraud complaint requires immediate review">>]
       ELSE IF intent = "loan_request"
       THEN [escalate |-> TRUE, reason |-> <<"Loan application requires specialist review">>]
       ELSE IF intent = "account_issue" /\ priority = "high"
       THEN [escalate |-> TRUE, reason |-> <<"High priority account issue">>]
       ELSE [escalate |-> FALSE, reason |-> <<"Standard processing">>]

\* determine_action answering every account issue, whatever its priority.
determine_action_account_reply(email_data, intent, confidence) ==
    LET priority == GetPriority(email_data)
        Result(t, r, a) ==
            [action_type |-> t, priority |-> priority, reason |-> r, assigned_to |-> a]
    IN IF confidence < ActionConfThreshold
       THEN Result("escalate", "Low confidence in classification, requires human review",
                   "human_review_team")
       ELSE IF intent = "fraud_complaint" \/ priority = "critical"
       THEN Result("escalate", "Urgent issue requiring immediate attention",
                   IF intent = "fraud_complaint" THEN "fraud_department"
                                                 ELSE "escalation_team")
       ELSE IF intent = "loan_request"
       THEN Result("escalate", "Loan application requires underwriting review",
                   "loan_department")
       ELSE IF intent = "kyc_update"
       THEN Result("reply", "Standard KYC update, can be processed automatically",
                   "kyc_team")
       ELSE IF intent = "account_issue"
       THEN Result("reply", "Standard account issue", "customer_support")
       ELSE Result("reply", "General inquiry, can be handled with standard response",
                   "customer_support")

\* LLMAgent.determine_action.
determine_action(email_data, intent, confidence) ==
    LET priority == GetPriority(email_data)
        Result(t, r, a) ==
            [action_type |-> t, priority |-> priority, reason |-> r, assigned_to |-> a]
    IN IF confidence < ActionConfThreshold
       THEN Result("escalate", "Low confidence in classification, requires human review",
                   "human_review_team")
       ELSE IF intent = "fraud_complaint" \/ priority = "critical"
       THEN Result("escalate", "Urgent issue requiring immediate attention",
                   IF intent = "fraud_complaint" THEN "fraud_department"
                                                 ELSE "escalation_team")
       ELSE IF intent = "loan_request"
       THEN Result("escalate", "Loan application requires underwriting review",
                   "loan_department")
       ELSE IF intent = "kyc_update"
       THEN Result("reply", "Standard KYC update, can be processed automatically",
                   "kyc_team")
       ELSE IF intent = "account_issue"
       THEN IF priority = "high"
            THEN Result("escalate", "High priority account issue", "customer_support_tier2")
            ELSE Result("reply", "Standard account issue", "customer_support")
       ELSE Result("reply", "General inquiry, can be handled with standard response",
                   "customer_support")

(* ------------------------------ actions ------------------------------- *)

CoreIdle ==
    /\ pc = "idle"
    /\ email = None
    /\ response = None
    /\ upstream = None
    /\ classification = None
    /\ raised = FALSE
    /\ escalation = None
    /\ action = None

BatchIdle ==
    /\ runner = "none"
    /\ batch = <<>>
    /\ idx = 0
    /\ step = "idle"
    /\ cur = None
    /\ results = <<>>
    /\ summary = None
    /\ db = <<>>
    /\ processed_emails = <<>>

Init ==
    /\ CoreIdle
    /\ call = None
    /\ BatchIdle

\* An e-mail is taken up for processing.
LoadEmail(e) ==
    /\ pc = "idle"
    /\ pc' = "loaded"
    /\ email' = Some(e)
    /\ UNCHANGED <<response, upstream, classification, raised, escalation, action>>
    /\ UNCHANGED <<call, batchVars>>

\* IntentClassifier.classify(email): the call of classify_intent, which calls
\* generate_completion, and the validation of the label.
Classify(outcome) ==
    /\ pc = "loaded"
    /\ LET completion == generate_completion(outcome)
       IN IF completion.raised
          THEN /\ pc' = "failed"
               /\ raised' = TRUE
               /\ UNCHANGED <<response, upstream, classification>>
          ELSE /\ pc' = "classified"
               /\ raised' = FALSE
               /\ response' = completion.value
               /\ upstream' = Some(classify_intent(completion.value))
               /\ classification' = Some(classify(classify_intent(completion.value)))
    /\ UNCHANGED <<email, escalation, action>>
    /\ UNCHANGED <<call, batchVars>>

\* classifier.should_escalate(classification, email)
ShouldEscalate ==
    /\ pc = "classified"
    /\ escalation = None
    /\ escalation' = Some(should_escalate(classification[1], email[1]))
    /\ UNCHANGED <<pc, email, response, upstream, classification, raised, action>>
    /\ UNCHANGED <<call, batchVars>>

\* llm_agent.determine_action(email, classification['intent'], classification['confidence'])
DetermineAction ==
    /\ pc = "classified"
    /\ action = None
    /\ action' = Some(determine_action(email[1], classification[1].intent,
                                       classification[1].confidence))
    /\ UNCHANGED <<pc, email, response, upstream, classification, raised, escalation>>
    /\ UNCHANGED <<call, batchVars>>

Next ==
    \/ \E e \in Emails : LoadEmail(e)
    \/ \E o \in Outcomes : Classify(o)
    \/ ShouldEscalate
    \/ DetermineAction

Spec == Init /\ [][Next]_vars

\* The decision functions as pure functions: any classification dict and any
\* e-mail, as the unit tests hand them over.
InitDecision ==
    /\ pc = "classified"
    /\ email \in {Some(e) : e \in Emails}
    /\ classification \in {Some(c) : c \in GivenClassifications}
    /\ response = None
    /\ upstream = None
    /\ raised = FALSE
    /\ escalation = None
    /\ action = None
    /\ call = None
    /\ BatchIdle

NextDecision ==
    \/ ShouldEscalate
    \/ DetermineAction

SpecDecision == InitDecision /\ [][NextDecision]_vars

(* ------------------- classification quality --------------------------- *)

\* Classification dicts handed to analyze_classification_quality.
QualityInputs ==
    [intent : INTENT_CATEGORIES \cup {"unknown", "refund_request"},
     confidence : ConfGrid,
     sub_category : {None, Some("home_loan")},
     reasoning : {"", "Customer asks for a loan"}]

\* classifier.py:211, the three confidence levels.
ConfidenceLevel(confidence) ==
    IF confidence >= 80 THEN "high"
    ELSE IF confidence >= 60 THEN "medium"
    ELSE "low"

\* The review flag raised at the threshold itself.
analyze_classification_quality_inclusive(cls) ==
    LET valid == cls.intent \in INTENT_CATEGORIES
        reasoned == cls.reasoning # ""
        sub == cls.sub_category # None
    IN [confidence |-> cls.confidence,
        confidence_level |-> ConfidenceLevel(cls.confidence),
        needs_review |-> cls.confidence <= 60,
        valid_intent |-> valid,
        has_reasoning |-> reasoned,
        has_sub_category |-> sub,
        quality_score |-> 6 * cls.confidence
                          + (IF valid THEN 200 ELSE 0)
                          + (IF reasoned THEN 100 ELSE 0)
                          + (IF sub THEN 100 ELSE 0)]

\* IntentClassifier.analyze_classification_quality. quality_score is in tenths
\* of a point: confidence * 60 has one decimal at most, which round(_, 1) keeps.
analyze_classification_quality(cls) ==
    LET valid == cls.intent \in INTENT_CATEGORIES
        reasoned == cls.reasoning # ""
        sub == cls.sub_category # None
    IN [confidence |-> cls.confidence,
        confidence_level |-> ConfidenceLevel(cls.confidence),
        needs_review |-> cls.confidence < 60,
        valid_intent |-> valid,
        has_reasoning |-> reasoned,
        has_sub_category |-> sub,
        quality_score |-> 6 * cls.confidence
                          + (IF valid THEN 200 ELSE 0)
                          + (IF reasoned THEN 100 ELSE 0)
                          + (IF sub THEN 100 ELSE 0)]

(* ------------------------ calls of pure functions --------------------- *)

InitCalls ==
    /\ CoreIdle
    /\ call = None
    /\ BatchIdle

AnalyzeClassificationQuality(cls) ==
    /\ call' = Some([fn |-> "analyze_classification_quality",
                     arg |-> cls,
                     ret |-> analyze_classification_quality(cls)])
    /\ UNCHANGED <<coreVars, batchVars>>

\* The last call was of fn.
LastCall(fn) == call # None /\ call[1].fn = fn

(* ----------------------------- text ----------------------------------- *)

Min(a, b) == IF a <= b THEN a ELSE b

\* str.lower() on one character.
LowerChar(ch) ==
    CASE ch = "A" -> "a" [] ch = "B" -> "b" [] ch = "C" -> "c" [] ch = "D" -> "d"
      [] ch = "E" -> "e" [] ch = "F" -> "f" [] ch = "G" -> "g" [] ch = "H" -> "h"
      [] ch = "I" -> "i" [] ch = "J" -> "j" [] ch = "K" -> "k" [] ch = "L" -> "l"
      [] ch = "M" -> "m" [] ch = "N" -> "n" [] ch = "O" -> "o" [] ch = "P" -> "p"
      [] ch = "Q" -> "q" [] ch = "R" -> "r" [] ch = "S" -> "s" [] ch = "T" -> "t"
      [] ch = "U" -> "u" [] ch = "V" -> "v" [] ch = "W" -> "w" [] ch = "X" -> "x"
      [] ch = "Y" -> "y" [] ch = "Z" -> "z" [] OTHER -> ch

\* s[i-1:j].lower(), by halves.
RECURSIVE LowerRange(_, _, _)
LowerRange(s, i, j) ==
    IF i > j THEN ""
    ELSE IF i = j THEN LowerChar(SubSeq(s, i, i))
    ELSE LowerRange(s, i, (i + j) \div 2) \o LowerRange(s, (i + j) \div 2 + 1, j)

\* s.lower()
LowerText(s) == LowerRange(s, 1, Len(s))

\* needle in s
Contains(s, needle) ==
    \E i \in 1..(Len(s) - Len(needle) + 1) : SubSeq(s, i, i + Len(needle) - 1) = needle

\* s[:n]
Prefix(s, n) == SubSeq(s, 1, Min(n, Len(s)))

\* s[-n:]
Suffix(s, n) == SubSeq(s, Max(1, Len(s) - n + 1), Len(s))

\* any(word in s for word in words)
ContainsAny(s, words) == \E w \in words : Contains(s, w)

IsSpace(ch) == ch \in {" ", "\n", "\t"}

\* len(s.split()): the maximal runs of non-whitespace characters.
WordCount(s) ==
    Cardinality({i \in 1..Len(s) :
                    /\ ~IsSpace(SubSeq(s, i, i))
                    /\ (i = 1 \/ IsSpace(SubSeq(s, i - 1, i - 1)))})

(* ------------------------ quality of a response ----------------------- *)

\* llm_agent.py:246, the reply when the completion is None or empty.
FallbackResponse ==
    "I apologize, but I'm unable to generate a response at this time. Please contact our customer service team directly."

\* Response bodies as the external generator writes them.
FullResponse ==
    "Dear Ms. Rao, we will process your loan request within five days. Best regards, Your Bank"

ResponseTexts ==
    {FullResponse,
     FallbackResponse,
     "We will process your request. Regards, Your Bank",
     "Dear Customer, we will review your documents.",
     "Dear Customer, your statement is attached. Thank you",
     "Dear Customer, hey we will process it. Sincerely, Your Bank",
     "Dear Customer, they will call you about the next steps. Sincerely, Your Bank",
     "Hey, gonna look into it.",
     FallbackResponse \o " Dear Customer, we will call you. Regards",
     ""}

WordCounts == {0, 19, 40, 49, 50, 51, 150, 299, 300, 301, 500}

\* Response dicts handed to evaluate_response_quality.
ResponseInputs == [response_text : ResponseTexts, word_count : WordCounts]

QualityLevel(score) ==
    IF score >= 80 THEN "high" ELSE IF score >= 60 THEN "medium" ELSE "low"

\* The length bounds themselves excluded.
evaluate_response_quality_open_length(resp) ==
    LET lower == LowerText(resp.response_text)
        has_greeting == Contains(Prefix(lower, 100), "dear")
        has_closing == ContainsAny(Suffix(lower, 200), {"regards", "sincerely", "thank you"})
        appropriate_length == 50 < resp.word_count /\ resp.word_count < 300
        has_next_steps == ContainsAny(lower, {"will", "next", "steps", "process"})
        professional_tone == ~ContainsAny(lower, {"hey", "gonna", "wanna"})
        quality_score == (IF has_greeting THEN 30 ELSE 0)
                         + (IF has_closing THEN 20 ELSE 0)
                         + (IF appropriate_length THEN 20 ELSE 0)
                         + (IF has_next_steps THEN 15 ELSE 0)
                         + (IF professional_tone THEN 15 ELSE 0)
    IN [has_greeting |-> has_greeting,
        has_closing |-> has_closing,
        appropriate_length |-> appropriate_length,
        has_next_steps |-> has_next_steps,
        professional_tone |-> professional_tone,
        quality_score |-> quality_score,
        quality_level |-> QualityLevel(quality_score)]

\* ResponseGenerator.evaluate_response_quality
evaluate_response_quality(resp) ==
    LET lower == LowerText(resp.response_text)
        has_greeting == Contains(Prefix(lower, 100), "dear")
        has_closing == ContainsAny(Suffix(lower, 200), {"regards", "sincerely", "thank you"})
        appropriate_length == 50 <= resp.word_count /\ resp.word_count <= 300
        has_next_steps == ContainsAny(lower, {"will", "next", "steps", "process"})
        professional_tone == ~ContainsAny(lower, {"hey", "gonna", "wanna"})
        quality_score == (IF has_greeting THEN 30 ELSE 0)
                         + (IF has_closing THEN 20 ELSE 0)
                         + (IF appropriate_length THEN 20 ELSE 0)
                         + (IF has_next_steps THEN 15 ELSE 0)
                         + (IF professional_tone THEN 15 ELSE 0)
    IN [has_greeting |-> has_greeting,
        has_closing |-> has_closing,
        appropriate_length |-> appropriate_length,
        has_next_steps |-> has_next_steps,
        professional_tone |-> professional_tone,
        quality_score |-> quality_score,
        quality_level |-> QualityLevel(quality_score)]

EvaluateResponseQuality(resp) ==
    /\ call' = Some([fn |-> "evaluate_response_quality",
                     arg |-> resp,
                     ret |-> evaluate_response_quality(resp)])
    /\ UNCHANGED <<coreVars, batchVars>>

\* Response dicts evaluated one after another.
NextRubric == \E resp \in ResponseInputs : EvaluateResponseQuality(resp)

SpecRubric == InitCalls /\ [][NextRubric]_vars

(* ----------------------- evidence extraction -------------------------- *)

\* The character at position i of s, "" outside it.
Char(s, i) == IF i \in 1..Len(s) THEN SubSeq(s, i, i) ELSE ""

IsDigit(ch) == ch \in {"0", "1", "2", "3", "4", "5", "6", "7", "8", "9"}

IsDigitOrComma(ch) == IsDigit(ch) \/ ch = ","

DigitValue(ch) ==
    CASE ch = "0" -> 0 [] ch = "1" -> 1 [] ch = "2" -> 2 [] ch = "3" -> 3
      [] ch = "4" -> 4 [] ch = "5" -> 5 [] ch = "6" -> 6 [] ch = "7" -> 7
      [] ch = "8" -> 8 [] ch = "9" -> 9

\* Where the longest run of characters of a class that starts at i ends
\* (i - 1 for the empty run): a greedy X* of the regex engine.
SpanEnd(s, i, InClass(_)) ==
    CHOOSE j \in (i - 1)..Len(s) :
        /\ \A k \in i..j : InClass(Char(s, k))
        /\ j = Len(s) \/ ~InClass(Char(s, j + 1))

\* The elements of a set of integers in ascending order.
Ascending(S) ==
    [k \in 1..Cardinality(S) |-> CHOOSE i \in S : Cardinality({j \in S : j < i}) = k - 1]

\* ocr_engine.py:22, amount_pattern \$[\d,]+\.?\d* : where the match that
\* starts at i ends, 0 when none starts there.
AmountMatchEnd(s, i) ==
    IF Char(s, i) # "$" \/ ~IsDigitOrComma(Char(s, i + 1)) THEN 0
    ELSE LET a == SpanEnd(s, i + 1, IsDigitOrComma)
             b == IF Char(s, a + 1) = "." THEN a + 1 ELSE a
         IN SpanEnd(s, b + 1, IsDigit)

\* amount_pattern.findall(text). A match holds no "$" after its first
\* character, so no match starts inside another.
AmountMatches(text) ==
    LET starts == Ascending({i \in 1..Len(text) : AmountMatchEnd(text, i) # 0})
    IN [k \in 1..Len(starts) |-> SubSeq(text, starts[k], AmountMatchEnd(text, starts[k]))]

\* amount_str.replace('$', '').replace(',', '')
RECURSIVE Cleaned(_)
Cleaned(tok) ==
    IF tok = "" THEN ""
    ELSE IF Char(tok, 1) \in {"$", ","} THEN Cleaned(SubSeq(tok, 2, Len(tok)))
    ELSE Char(tok, 1) \o Cleaned(SubSeq(tok, 2, Len(tok)))

\* Whether float(cleaned) returns for digits with at most one point among
\* them: it raises ValueError on "" and on ".".
FloatParses(cleaned) == \E i \in 1..Len(cleaned) : IsDigit(Char(cleaned, i))

\* The integer a string of digits denotes, 0 for "".
RECURSIVE DigitsValue(_)
DigitsValue(digits) ==
    IF digits = "" THEN 0
    ELSE 10 * DigitsValue(SubSeq(digits, 1, Len(digits) - 1))
         + DigitValue(Char(digits, Len(digits)))

RECURSIVE Pow10(_)
Pow10(n) == IF n = 0 THEN 1 ELSE 10 * Pow10(n - 1)

\* A float as num / 10^exp, without trailing zeros so that equal floats are
\* equal records.
RECURSIVE Normalised(_, _)
Normalised(num, exp) ==
    IF exp > 0 /\ num % 10 = 0 THEN Normalised(num \div 10, exp - 1)
    ELSE [num |-> num, exp |-> exp]

\* 0.0
ZeroAmount == [num |-> 0, exp |-> 0]

\* float(cleaned), for a cleaned token that parses.
FloatOfAmount(cleaned) ==
    LET point == {i \in 1..Len(cleaned) : Char(cleaned, i) = "."}
        p == IF point = {} THEN Len(cleaned) + 1 ELSE CHOOSE i \in point : TRUE
        whole == SubSeq(cleaned, 1, p - 1)
        frac == SubSeq(cleaned, p + 1, Len(cleaned))
    IN Normalised(DigitsValue(whole) * Pow10(Len(frac)) + DigitsValue(frac), Len(frac))

\* OCREngine._parse_amount: return 0.0 on ValueError.
_parse_amount(amount_str) ==
    IF FloatParses(Cleaned(amount_str)) THEN FloatOfAmount(Cleaned(amount_str))
    ELSE ZeroAmount

\* ocr_engine.py:21, account_number_pattern (ACC|BUS-ACC)-\d{4}-\d{4} :
\* whether a match with this prefix starts at i.
AccountMatchAt(s, i, prefix) ==
    LET d == i + Len(prefix)
    IN /\ d + 9 <= Len(s)
       /\ SubSeq(s, i, d - 1) = prefix
       /\ Char(s, d) = "-"
       /\ \A k \in (d + 1)..(d + 4) : IsDigit(Char(s, k))
       /\ Char(s, d + 5) = "-"
       /\ \A k \in (d + 6)..(d + 9) : IsDigit(Char(s, k))

\* set(account_number_pattern.findall(text)): findall returns the text of the
\* pattern's one group, the prefix; the ACC inside a BUS-ACC match is consumed.
AccountMatches(text) ==
    {"BUS-ACC" : i \in {j \in 1..Len(text) : AccountMatchAt(text, j, "BUS-ACC")}}
    \cup {"ACC" : i \in {j \in 1..Len(text) :
                            /\ AccountMatchAt(text, j, "ACC")
                            /\ ~AccountMatchAt(text, j - 4, "BUS-ACC")}}

\* OCREngine.extract_structured_data: the account_numbers and amounts
\* collections (dates, phone_numbers, emails and names are left out).
\* list(set(...)) has no defined order: account_numbers is a set.
extract_structured_data(text) ==
    [account_numbers |-> AccountMatches(text),
     amounts |-> [k \in 1..Len(AmountMatches(text)) |->
                    _parse_amount(AmountMatches(text)[k])]]

\* Document texts as extract_text_from_pdf returns them.
DocumentTexts ==
    {"",
     "Loan amount $1,234.56 for ACC-1234-5678",
     "Fee $0 waived, balance $0.00",
     "Pay $, now",
     "fee $abc",
     "Total $5. and $1.2.3",
     "Due $,5 or $, or $12.50",
     "BUS-ACC-1111-2222 owes $300 to ACC-1234-5678"}

ExtractStructuredData(text) ==
    /\ call' = Some([fn |-> "extract_structured_data",
                     arg |-> text,
                     ret |-> extract_structured_data(text)])
    /\ UNCHANGED <<coreVars, batchVars>>

(* ------------------------- the e-mails of a batch --------------------- *)

\* An entry of email['attachments'] with what the file system holds for it:
\* a PDF with its text ("" for a PDF no text can be read from), a name with
\* no file under data/sample_pdfs, or an entry that is not a string, on which
\* Path("data/sample_pdfs") / attachment raises TypeError.
Pdf(text) == [kind |-> "pdf", text |-> text]

MissingFile == [kind |-> "missing", text |-> ""]

NotAString == [kind |-> "not_a_string", text |-> ""]

\* What the external classifier and the external generator answer.
Completion(lines) == [kind |-> "text", text |-> lines]

NoContent == [kind |-> "no_content", text |-> <<>>]

ApiError == [kind |-> "api_error", text |-> <<>>]

NoClient == [kind |-> "no_client", text |-> <<>>]

ClassifierReply(intent, confidence) ==
    Completion(<<[key |-> "INTENT:", val |-> intent],
                 [key |-> "CONFIDENCE:", val |-> confidence],
                 [key |-> "REASONING:", val |-> "Customer asks for a loan"]>>)

\* An e-mail of the batch with its environment: the answers of the two
\* external calls and the call of its processing that raises ("none",
\* "classify", "respond", "action", "session" for get_session, "write" for
\* the create_classification of _store_results).
Item(priority, attachments, llm, gen, fault) ==
    [priority |-> priority, attachments |-> attachments,
     llm |-> llm, gen |-> gen, fault |-> fault]

PlainItem ==
    Item(None, <<>>, ClassifierReply("loan_request", "0.8"), Completion(FullResponse), "none")

Items ==
    {PlainItem,
     Item(Some("critical"), <<>>, ClassifierReply("fraud_complaint", "0.6"),
          Completion(FullResponse), "none"),
     Item(Some("low"), <<>>, ClassifierReply("refund_request", "0.6"),
          Completion("Dear Customer, we will review your documents."), "none"),
     Item(Some("high"), <<>>, NoClient, NoClient, "none"),
     Item(None, <<>>, ClassifierReply("general_inquiry", "0.8"), ApiError, "none"),
     Item(None, <<>>, ClassifierReply("kyc_update", "0.6"), Completion(""), "none"),
     Item(None, <<Pdf("Loan amount $1,234.56 for ACC-1234-5678")>>,
          ClassifierReply("loan_request", "0.8"), Completion(FullResponse), "none"),
     Item(None, <<Pdf("BUS-ACC-1111-2222 owes $300 to ACC-1234-5678"), Pdf("Pay $, now")>>,
          ClassifierReply("account_issue", "0.8"), Completion(FullResponse), "none"),
     Item(None, <<MissingFile>>, ClassifierReply("loan_request", "0.8"), NoContent, "none"),
     Item(None, <<Pdf("")>>, ClassifierReply("account_issue", "0.6"), ApiError, "none"),
     Item(None, <<Pdf("Fee $0 waived, balance $0.00"), NotAString>>,
          ClassifierReply("loan_request", "0.8"), Completion(FullResponse), "none"),
     Item(None, <<>>, ClassifierReply("loan_request", "0.8"), Completion(FullResponse), "classify"),
     Item(None, <<>>, ClassifierReply("loan_request", "0.8"), Completion(FullResponse), "respond"),
     Item(Some("critical"), <<>>, ClassifierReply("loan_request", "0.8"),
          Completion(FullResponse), "action"),
     Item(None, <<>>, ClassifierReply("loan_request", "0.8"), Completion(FullResponse), "session"),
     Item(None, <<>>, ClassifierReply("fraud_complaint", "0.8"), NoContent, "write")}

\* The e-mail dict of the i-th e-mail of a batch.
EmailOf(i, item) ==
    [email_id |-> i, subject |-> "Request", priority |-> item.priority,
     attachments |-> item.attachments]

\* str(e) of the exception a call raises.
ErrorText(fault) ==
    CASE fault = "extract" -> "unsupported operand type(s) for /: 'PosixPath' and 'NoneType'"
      [] fault = "classify" -> "classification failed"
      [] fault = "respond" -> "response generation failed"
      [] fault = "action" -> "action resolution failed"
      [] fault = "session" -> "unable to open database file"
      [] fault = "write" -> "database is locked"

(* ------------------------ evidence of an e-mail ----------------------- *)

\* The dict {} : no key.
EmptyDict == <<>>

\* ocr_result['raw_text'] + "\n" of the attachments that exist, in order.
RECURSIVE AllText(_)
AllText(attachments) ==
    IF attachments = <<>> THEN ""
    ELSE IF Head(attachments).kind = "pdf"
         THEN Head(attachments).text \o "\n" \o AllText(Tail(attachments))
         ELSE AllText(Tail(attachments))

\* structured_data.update(ocr_result['structured_data']) for the attachments
\* that exist, in order: every OCR result holds every key, so that the last
\* one to exist replaces what the others gave; {} when none exists.
MergedStructuredData(attachments) ==
    LET existing == SelectSeq(attachments, LAMBDA a : a.kind = "pdf")
    IN IF existing = <<>> THEN EmptyDict
       ELSE extract_structured_data(existing[Len(existing)].text)

\* pipeline.py:67-87, step 1 of process_email: the local extracted_data, or
\* the TypeError of an entry that is not a string.
ExtractEvidence(email_data) ==
    IF email_data.attachments = <<>>
    THEN [raised |-> FALSE, extracted_data |-> None]
    ELSE IF \E k \in 1..Len(email_data.attachments) :
                email_data.attachments[k].kind = "not_a_string"
    THEN [raised |-> TRUE, extracted_data |-> None]
    ELSE [raised |-> FALSE,
          extracted_data |-> Some([all_text |-> AllText(email_data.attachments),
                                   structured_data |->
                                       MergedStructuredData(email_data.attachments)])]

(* ----------------------- composing the response ----------------------- *)

\* generate_response without the fallback: "" for no completion.
generate_response_unguarded(outcome) ==
    LET completion == generate_completion(outcome).value
    IN IF completion = None THEN "" ELSE completion[1]

\* LLMAgent.generate_response: response or the fallback.
generate_response(outcome) ==
    LET completion == generate_completion(outcome).value
    IN IF completion = None \/ completion[1] = "" THEN FallbackResponse
       ELSE completion[1]

\* ResponseGenerator._extract_personalization_data: the keys are looked up in
\* the dict handed over. Element 0 of list(set(...)) is any element of the
\* set: account_number holds the candidates. None for a key not set.
_extract_personalization_data(email_data, extracted_data) ==
    LET given == extracted_data # None /\ DOMAIN extracted_data[1] # {}
        Holds(key) == given /\ key \in DOMAIN extracted_data[1]
    IN [subject |-> email_data.subject,
        account_number |->
            IF Holds("account_numbers") /\ extracted_data[1].account_numbers # {}
            THEN Some(extracted_data[1].account_numbers) ELSE None,
        amount |->
            IF Holds("amounts") /\ extracted_data[1].amounts # <<>>
            THEN Some(extracted_data[1].amounts[1]) ELSE None]

\* ResponseGenerator.generate(email, intent, extracted_data), with the answer
\* of the external generator.
generate(email_data, intent, extracted_data, outcome) ==
    LET response_text == generate_response(outcome)
    IN [response_text |-> response_text,
        template_used |-> intent,
        personalization_data |-> _extract_personalization_data(email_data, extracted_data),
        word_count |-> IF response_text # "" THEN WordCount(response_text) ELSE 0,
        character_count |-> IF response_text # "" THEN Len(response_text) ELSE 0]

(* --------------------- process_email, step by step -------------------- *)

\* pipeline.py:58-63 and the locals of process_email. A key the result dict
\* does not hold yet is None. classifier_calls counts the calls of
\* llm_agent.classify_intent made for the e-mail.
Frame(email_data) ==
    [email |-> email_data,
     result |-> [email_id |-> email_data.email_id, subject |-> email_data.subject,
                 success |-> FALSE, error |-> None, extracted_data |-> None,
                 classification |-> None, response |-> None, action |-> None],
     extracted_data |-> None, classification |-> None, response |-> None,
     raised |-> FALSE, classifier_calls |-> 0]

\* The except clause without result['error'] = str(e).
ExceptedSilently(f, fault) == [f EXCEPT !.raised = TRUE]

\* pipeline.py:131-133, the except clause.
Excepted(f, fault) ==
    [f EXCEPT !.result.error = Some(ErrorText(fault)), !.raised = TRUE]

\* Step 1, pipeline.py:67-87.
AfterExtract(item, f) ==
    LET e == ExtractEvidence(f.email)
    IN IF e.raised THEN Excepted(f, "extract")
       ELSE [f EXCEPT !.extracted_data = e.extracted_data,
                      !.result.extracted_data =
                          IF e.extracted_data = None THEN None
                          ELSE Some(e.extracted_data[1].structured_data)]

\* Step 2 with classify_intent called again when the first call brought no
\* completion.
AfterClassifyRetrying(item, f) ==
    LET called == [f EXCEPT !.classifier_calls =
                       IF item.llm.kind = "text" THEN @ + 1 ELSE @ + 2]
    IN IF item.fault = "classify" THEN Excepted(called, "classify")
       ELSE LET c == classify(classify_intent(generate_completion(item.llm).value))
            IN [called EXCEPT !.classification = Some(c),
                              !.result.classification = Some(c)]

\* Step 2, pipeline.py:89-97: classifier.classify calls classify_intent once
\* (classifier.py:74), which calls generate_completion once (llm_agent.py:150).
AfterClassify(item, f) ==
    LET called == [f EXCEPT !.classifier_calls = @ + 1]
    IN IF item.fault = "classify" THEN Excepted(called, "classify")
       ELSE LET c == classify(classify_intent(generate_completion(item.llm).value))
            IN [called EXCEPT !.classification = Some(c),
                              !.result.classification = Some(c)]

\* Step 3, pipeline.py:99-114.
AfterRespond(item, f) ==
    IF item.fault = "respond" THEN Excepted(f, "respond")
    ELSE LET r == generate(f.email, f.classification[1].intent, f.extracted_data, item.gen)
         IN [f EXCEPT !.response = Some(r),
                      !.result.response =
                          Some([text |-> r.response_text,
                                word_count |-> r.word_count,
                                template_used |-> r.template_used,
                                quality_score |->
                                    evaluate_response_quality(r).quality_score])]

\* Step 4, pipeline.py:116-123.
AfterAction(item, f) ==
    IF item.fault = "action" THEN Excepted(f, "action")
    ELSE [f EXCEPT !.result.action =
             Some(determine_action(f.email, f.classification[1].intent,
                                   f.classification[1].confidence))]

\* Step 5, pipeline.py:125-129: only the failure of get_session leaves
\* _store_results as an exception.
AfterStore(item, f) ==
    IF item.fault = "session" THEN Excepted(f, "session")
    ELSE [f EXCEPT !.result.success = TRUE]

Row(table, email_id) == [table |-> table, email_id |-> email_id]

\* The rows _store_results leaves in the database: every create_* commits on
\* its own; an exception of one of them (the unique email_id of create_email,
\* the failing create_classification) is logged and ends the writes.
Stored(rows, item, f) ==
    LET id == f.email.email_id
        evidence == /\ f.extracted_data # None
                    /\ f.extracted_data[1].structured_data # EmptyDict
    IN IF item.fault = "session" \/ \E k \in 1..Len(rows) : rows[k] = Row("emails", id)
       THEN rows
       ELSE rows \o <<Row("emails", id)>>
                 \o (IF evidence THEN <<Row("extracted_data", id)>> ELSE <<>>)
                 \o (IF item.fault = "write" THEN <<>>
                     ELSE <<Row("classifications", id), Row("responses", id),
                            Row("actions", id)>>)

\* A step of the try block: skipped once an exception has been raised.
Then(f, Step(_)) == IF f.raised THEN f ELSE Step(f)

\* EmailProcessingPipeline.process_email as one function of the e-mail and
\* its environment.
process_email(email_data, item) ==
    Then(Then(Then(Then(AfterExtract(item, Frame(email_data)),
                        LAMBDA f : AfterClassify(item, f)),
                   LAMBDA f : AfterRespond(item, f)),
              LAMBDA f : AfterAction(item, f)),
         LAMBDA f : AfterStore(item, f)).result

(* ---------------------------- summaries ------------------------------- *)

\* The longest list of results or classifications summarised.
MaxResults == 3

\* The bucket bounds taken as strict on the high side and loose on the low.
ConfidenceBucketShifted(confidence) ==
    IF confidence > 80 THEN "high"
    ELSE IF confidence <= 60 THEN "low"
    ELSE "neither"

\* classifier.py:137-140 and pipeline.py:275-278:
\* if confidence >= 0.8 ... elif confidence < 0.6 ...
ConfidenceBucket(confidence) ==
    IF confidence >= 80 THEN "high"
    ELSE IF confidence < 60 THEN "low"
    ELSE "neither"

\* The number of elements of a list that pass a test.
Count(list, Test(_)) == Cardinality({k \in 1..Len(list) : Test(list[k])})

\* d[key] = d.get(key, 0) + 1 over a list of keys: the dict of the counts.
Tally(keys) ==
    [key \in {keys[k] : k \in 1..Len(keys)} |-> Count(keys, LAMBDA x : x = key)]

RECURSIVE Sum(_)
Sum(numbers) == IF numbers = <<>> THEN 0 ELSE Head(numbers) + Sum(Tail(numbers))

\* sum / len as the fraction num / den; 0.0 for an empty list.
Average(numbers) ==
    IF numbers = <<>> THEN [num |-> 0, den |-> 1]
    ELSE [num |-> Sum(numbers), den |-> Len(numbers)]

\* generate_summary counting every result that holds a classification.
generate_summary_of_classified(rs) ==
    LET good == SelectSeq(rs, LAMBDA r : r.classification # None)
        confidences == [k \in 1..Len(good) |-> good[k].classification[1].confidence]
    IN [total_emails |-> Len(rs),
        successful |-> Count(rs, LAMBDA r : r.success),
        failed |-> Count(rs, LAMBDA r : ~r.success),
        intents |-> Tally([k \in 1..Len(good) |-> good[k].classification[1].intent]),
        actions |-> Tally([k \in 1..Len(SelectSeq(good, LAMBDA r : r.action # None)) |->
                              SelectSeq(good, LAMBDA r : r.action # None)[k].action[1].action_type]),
        avg_confidence |-> Average(confidences),
        high_confidence |-> Count(confidences, LAMBDA c : ConfidenceBucket(c) = "high"),
        low_confidence |-> Count(confidences, LAMBDA c : ConfidenceBucket(c) = "low")]

\* EmailProcessingPipeline.generate_summary
generate_summary(rs) ==
    LET good == SelectSeq(rs, LAMBDA r : r.success)
        confidences == [k \in 1..Len(good) |-> good[k].classification[1].confidence]
    IN [total_emails |-> Len(rs),
        successful |-> Count(rs, LAMBDA r : r.success),
        failed |-> Count(rs, LAMBDA r : ~r.success),
        intents |-> Tally([k \in 1..Len(good) |-> good[k].classification[1].intent]),
        actions |-> Tally([k \in 1..Len(good) |-> good[k].action[1].action_type]),
        avg_confidence |-> Average(confidences),
        high_confidence |-> Count(confidences, LAMBDA c : ConfidenceBucket(c) = "high"),
        low_confidence |-> Count(confidences, LAMBDA c : ConfidenceBucket(c) = "low")]

\* IntentClassifier.get_intent_summary
get_intent_summary(classifications) ==
    LET confidences == [k \in 1..Len(classifications) |-> classifications[k].confidence]
    IN [total |-> Len(classifications),
        by_intent |-> Tally([k \in 1..Len(classifications) |-> classifications[k].intent]),
        high_confidence |-> Count(confidences, LAMBDA c : ConfidenceBucket(c) = "high"),
        low_confidence |-> Count(confidences, LAMBDA c : ConfidenceBucket(c) = "low"),
        avg_confidence |-> Average(confidences)]

\* A classification dict as the tests build it.
Classification(intent, confidence) ==
    [intent |-> intent, confidence |-> confidence, sub_category |-> None, reasoning |-> ""]

\* test_classifier.py:143-148, the list of test_get_intent_summary.
TestClassifications ==
    <<Classification("loan_request", 90), Classification("loan_request", 80),
      Classification("kyc_update", 70), Classification("fraud_complaint", 95)>>

\* Lists of classification dicts handed to get_intent_summary.
ClassificationLists ==
    {TestClassifications}
    \cup UNION {[1..n -> {Classification(i, c) : i \in {"loan_request", "kyc_update"},
                                                 c \in {59, 60, 79, 80}}]
                : n \in 0..MaxResults}

\* Results of process_email: four successes over the buckets and failures
\* before and after the classification.
SummaryResults ==
    {process_email(EmailOf(1, item), item) :
        item \in {it \in Items :
                     /\ it.attachments \in {<<>>, <<Pdf("Fee $0 waived, balance $0.00"), NotAString>>}
                     /\ it.fault \in {"none", "respond", "session"}}}

\* A result whose recorded action the loan desk has changed to reply, which
\* determine_action would not return for it.
OverriddenResult ==
    [process_email(EmailOf(1, PlainItem), PlainItem) EXCEPT
        !.action = Some([action_type |-> "reply", priority |-> "medium",
                         reason |-> "Approved by the loan desk",
                         assigned_to |-> "customer_support"])]

\* Lists of results handed to generate_summary.
ResultLists ==
    UNION {[1..n -> SummaryResults \cup {OverriddenResult}] : n \in 0..MaxResults}

GetIntentSummary(classifications) ==
    /\ call' = Some([fn |-> "get_intent_summary",
                     arg |-> classifications,
                     ret |-> get_intent_summary(classifications)])
    /\ UNCHANGED <<coreVars, batchVars>>

GenerateSummaryOf(rs) ==
    /\ call' = Some([fn |-> "generate_summary",
                     arg |-> rs,
                     ret |-> generate_summary(rs)])
    /\ UNCHANGED <<coreVars, batchVars>>

(* ------------------- the batch run of the pipeline -------------------- *)

\* The longest batch drawn freely.
MaxBatch == 2

\* Five e-mails, the third raising during evidence extraction.
ExampleBatch ==
    <<PlainItem,
      Item(Some("critical"), <<>>, ClassifierReply("fraud_complaint", "0.6"),
           Completion(FullResponse), "none"),
      Item(None, <<Pdf("Fee $0 waived, balance $0.00"), NotAString>>,
           ClassifierReply("loan_request", "0.8"), Completion(FullResponse), "none"),
      Item(None, <<>>, ClassifierReply("kyc_update", "0.6"), Completion(""), "none"),
      Item(None, <<Pdf("Loan amount $1,234.56 for ACC-1234-5678")>>,
           ClassifierReply("loan_request", "0.8"), Completion(FullResponse), "none")>>

\* The priorities of validate_email_data (email_processor.py:176), and an
\* e-mail without one.
OutagePriorities == <<None, Some("critical"), Some("high"), Some("medium"), Some("low")>>

\* The backend is down for a whole batch, one e-mail of every priority: no
\* client, an API error, or a completion without content, for the classifier
\* and for the generator alike.
OutageBatch(answer) ==
    [k \in 1..Len(OutagePriorities) |->
        Item(OutagePriorities[k], <<>>, answer, answer, "none")]

\* What load_all_emails may return.
Batches ==
    {ExampleBatch} \cup {OutageBatch(answer) : answer \in {NoClient, ApiError, NoContent}}
    \cup UNION {[1..n -> Items] : n \in 0..MaxBatch}

InitBatch ==
    /\ CoreIdle
    /\ call = None
    /\ runner = "pipeline"
    /\ batch = <<>>
    /\ idx = 0
    /\ step = "start"
    /\ cur = None
    /\ results = <<>>
    /\ summary = None
    /\ db = <<>>
    /\ processed_emails = <<>>

\* pipeline.py:221-225: the e-mails are loaded, results = [].
LoadAllEmails(b) ==
    /\ runner = "pipeline"
    /\ step = "start"
    /\ batch' = b
    /\ idx' = 0
    /\ results' = <<>>
    /\ step' = "next"
    /\ UNCHANGED <<coreVars, call, runner, cur, summary, db, processed_emails>>

\* pipeline.py:226-228 and 56-63: the loop takes the next e-mail and
\* process_email builds its result dict.
BeginEmail ==
    /\ runner = "pipeline"
    /\ step = "next"
    /\ idx < Len(batch)
    /\ idx' = idx + 1
    /\ cur' = Some(Frame(EmailOf(idx + 1, batch[idx + 1])))
    /\ step' = "extract"
    /\ UNCHANGED <<coreVars, call, runner, batch, results, summary, db, processed_emails>>

\* A step of the try block of process_email: on an exception the except
\* clause has run and process_email is about to return.
Advance(f, following) ==
    /\ cur' = Some(f)
    /\ step' = IF f.raised THEN "return" ELSE following
    /\ UNCHANGED <<coreVars, call, runner, batch, idx, results, summary, processed_emails>>

ExtractStep ==
    /\ step = "extract"
    /\ Advance(AfterExtract(batch[idx], cur[1]), "classify")
    /\ UNCHANGED db

ClassifyStep ==
    /\ step = "classify"
    /\ Advance(AfterClassify(batch[idx], cur[1]), "respond")
    /\ UNCHANGED db

RespondStep ==
    /\ step = "respond"
    /\ Advance(AfterRespond(batch[idx], cur[1]), "action")
    /\ UNCHANGED db

ActionStep ==
    /\ step = "action"
    /\ Advance(AfterAction(batch[idx], cur[1]), "store")
    /\ UNCHANGED db

\* _store_results and result['success'] = True.
StoreStep ==
    /\ step = "store"
    /\ Advance(AfterStore(batch[idx], cur[1]), "return")
    /\ db' = Stored(db, batch[idx], cur[1])

\* pipeline.py:135 and 228-229: return result; results.append(result).
AppendResult ==
    /\ step = "return"
    /\ results' = Append(results, cur[1].result)
    /\ cur' = None
    /\ step' = "next"
    /\ UNCHANGED <<coreVars, call, runner, batch, idx, summary, db, processed_emails>>

\* pipeline.py:231-235: the loop is over, process_all_emails returns results.
ReturnResults ==
    /\ runner = "pipeline"
    /\ step = "next"
    /\ idx = Len(batch)
    /\ step' = "returned"
    /\ UNCHANGED <<coreVars, call, runner, batch, idx, cur, results, summary, db,
                   processed_emails>>

\* pipeline.py:299, summary = pipeline.generate_summary(results).
GenerateSummary ==
    /\ runner = "pipeline"
    /\ step = "returned"
    /\ summary = None
    /\ summary' = Some(generate_summary(results))
    /\ UNCHANGED <<coreVars, call, runner, batch, idx, step, cur, results, db,
                   processed_emails>>

NextBatch ==
    \/ \E b \in Batches : LoadAllEmails(b)
    \/ BeginEmail
    \/ ExtractStep
    \/ ClassifyStep
    \/ RespondStep
    \/ ActionStep
    \/ StoreStep
    \/ AppendResult
    \/ ReturnResults
    \/ GenerateSummary

SpecBatch == InitBatch /\ [][NextBatch]_vars

(* ------------------- the batch run of the dashboard ------------------- *)

\* BankingDashboard.process_single_email: no try block; the exception of a
\* step leaves the function.
process_single_email(email_data, item) ==
    IF ExtractEvidence(email_data).raised
    THEN [raised |-> TRUE, error |-> ErrorText("extract"), result |-> None]
    ELSE IF item.fault \in {"classify", "respond", "action"}
    THEN [raised |-> TRUE, error |-> ErrorText(item.fault), result |-> None]
    ELSE LET c == classify(classify_intent(generate_completion(item.llm).value))
             evidence == ExtractEvidence(email_data).extracted_data
         IN [raised |-> FALSE, error |-> "",
             result |-> Some([email |-> email_data,
                              extracted_data |-> evidence,
                              classification |-> Some(c),
                              response |-> Some(generate(email_data, c.intent, evidence,
                                                         item.gen)),
                              action |-> Some(determine_action(email_data, c.intent,
                                                               c.confidence))])]

InitDashboard ==
    /\ CoreIdle
    /\ call = None
    /\ runner = "dashboard"
    /\ batch = <<>>
    /\ idx = 0
    /\ step = "start"
    /\ cur = None
    /\ results = <<>>
    /\ summary = None
    /\ db = <<>>
    /\ processed_emails = <<>>

\* app.py:123-138 and 146-150: the e-mails are in st.session_state.emails and
\* process_all_emails starts with processed_results = [].
LoadEmails(b) ==
    /\ runner = "dashboard"
    /\ step = "start"
    /\ batch' = b
    /\ idx' = 0
    /\ results' = <<>>
    /\ step' = "next"
    /\ UNCHANGED <<coreVars, call, runner, cur, summary, db, processed_emails>>

\* app.py:152-161, one turn of the loop: the result is appended, or the
\* exception is shown with st.error and the loop goes on.
ProcessSingleEmail ==
    /\ runner = "dashboard"
    /\ step = "next"
    /\ idx < Len(batch)
    /\ idx' = idx + 1
    /\ LET r == process_single_email(EmailOf(idx + 1, batch[idx + 1]), batch[idx + 1])
       IN results' = IF r.raised THEN results ELSE Append(results, r.result[1])
    /\ UNCHANGED <<coreVars, call, runner, batch, step, cur, summary, db, processed_emails>>

\* app.py:166, st.session_state.processed_emails = processed_results.
StoreProcessed ==
    /\ runner = "dashboard"
    /\ step = "next"
    /\ idx = Len(batch)
    /\ processed_emails' = results
    /\ step' = "returned"
    /\ UNCHANGED <<coreVars, call, runner, batch, idx, cur, results, summary, db>>

\* The run is stopped between two items (the script is stopped or rerun, or
\* the process is interrupted): the exception passes "except Exception"
\* (app.py:159) and leaves process_all_emails before line 166. results keeps
\* what the loop had produced in its local list.
Abort ==
    /\ runner = "dashboard"
    /\ step = "next"
    /\ idx < Len(batch)
    /\ step' = "aborted"
    /\ UNCHANGED <<coreVars, call, runner, batch, idx, cur, results, summary, db,
                   processed_emails>>

\* The summary metrics of render_analytics_tab, app.py:403-421: the average
\* is sum(...) / len(processed), a ZeroDivisionError for an empty list.
render_analytics_tab(processed) ==
    IF processed = <<>>
    THEN [raised |-> TRUE, error |-> "division by zero", total_emails |-> 0,
          avg_confidence |-> None, high_confidence |-> 0, escalations |-> 0]
    ELSE LET confidences ==
                 [k \in 1..Len(processed) |-> processed[k].classification[1].confidence]
         IN [raised |-> FALSE, error |-> "", total_emails |-> Len(processed),
             avg_confidence |-> Some(Average(confidences)),
             high_confidence |-> Count(confidences, LAMBDA c : c >= 80),
             escalations |->
                 Count(processed, LAMBDA r : r.action[1].action_type = "escalate")]

\* app.py:399-403: the analytics tab is rendered once processing_complete is
\* set, over st.session_state.processed_emails.
RenderAnalyticsTab ==
    /\ runner = "dashboard"
    /\ step = "returned"
    /\ summary = None
    /\ summary' = Some(render_analytics_tab(processed_emails))
    /\ UNCHANGED <<coreVars, call, runner, batch, idx, step, cur, results, db,
                   processed_emails>>

NextDashboard ==
    \/ \E b \in Batches : LoadEmails(b)
    \/ ProcessSingleEmail
    \/ StoreProcessed
    \/ Abort
    \/ RenderAnalyticsTab

SpecDashboard == InitDashboard /\ [][NextDashboard]_vars

(* ------------------------- the stored e-mails ------------------------- *)

\* The longest directory of stored records.
MaxRecords == 2

\* email_processor.py:50, required_fields.
RequiredFields == {"email_id", "sender", "subject", "body", "date"}

\* A file email_*.json of the e-mail directory: whether it parses as JSON,
\* the fields of its object, whether its date is an ISO date, and the e-mail
\* (with its environment) it stands for.
Record(item, json_ok, fields, date_ok) ==
    [item |-> item, json_ok |-> json_ok, fields |-> fields, date_ok |-> date_ok]

StoredRecords ==
    {Record(PlainItem, TRUE, RequiredFields, TRUE),
     Record(Item(None, <<>>, ClassifierReply("loan_request", "0.8"),
                 Completion(FullResponse), "classify"), TRUE, RequiredFields, TRUE),
     Record(PlainItem, FALSE, {}, TRUE),
     Record(PlainItem, TRUE, RequiredFields \ {"body"}, TRUE),
     Record(PlainItem, TRUE, RequiredFields \ {"email_id"}, TRUE),
     Record(PlainItem, TRUE, RequiredFields, FALSE)}

\* The e-mail directory: None when it does not exist, else its files in the
\* order of sorted(glob("email_*.json")).
Sources ==
    {None} \cup {Some(files) : files \in UNION {[1..n -> StoredRecords] : n \in 0..MaxRecords}}

\* EmailProcessor.load_email: None for invalid JSON, for a missing required
\* field and for a date datetime.fromisoformat rejects.
load_email(record) ==
    IF ~record.json_ok THEN None
    ELSE IF \E field \in RequiredFields : field \notin record.fields THEN None
    ELSE IF ~record.date_ok THEN None
    ELSE Some(record.item)

\* EmailProcessor.load_all_emails: [] for a missing directory, else the
\* e-mails load_email returned, in the order of the files.
load_all_emails(source) ==
    IF source = None THEN <<>>
    ELSE LET loaded == SelectSeq([k \in 1..Len(source[1]) |-> load_email(source[1][k])],
                                 LAMBDA email_data : email_data # None)
         IN [k \in 1..Len(loaded) |-> loaded[k][1]]

\* EmailProcessingPipeline.process_all_emails as a function of the directory.
process_all_emails(source) ==
    LET emails == load_all_emails(source)
    IN [i \in 1..Len(emails) |-> process_email(EmailOf(i, emails[i]), emails[i])]

\* pipeline.py:293-299, main: the batch run and its summary.
Main(source) ==
    /\ call' = Some([fn |-> "main",
                     arg |-> source,
                     ret |-> [emails |-> load_all_emails(source),
                              results |-> process_all_emails(source),
                              summary |-> generate_summary(process_all_emails(source))]])
    /\ UNCHANGED <<coreVars, batchVars>>

(* ------------------- the pure functions, called ---------------------- *)

\* The caller is done with the value returned.
Return ==
    /\ call # None
    /\ call' = None
    /\ UNCHANGED <<coreVars, batchVars>>

NextCalls ==
    \/ call = None /\ \E cls \in QualityInputs : AnalyzeClassificationQuality(cls)
    \/ call = None /\ \E text \in DocumentTexts : ExtractStructuredData(text)
    \/ call = None /\ \E cs \in ClassificationLists : GetIntentSummary(cs)
    \/ call = None /\ \E rs \in ResultLists : GenerateSummaryOf(rs)
    \/ call = None /\ \E source \in Sources : Main(source)
    \/ Return

SpecCalls == InitCalls /\ [][NextCalls]_vars

(* ------------------- the classification policy ------------------------ *)

\* classify has returned for the e-mail in hand.
Classified == pc = "classified" /\ classification # None /\ upstream # None

\* The label the external classifier reported was outside the closed set.
Remapped == Classified /\ upstream[1].intent \notin INTENT_CATEGORIES

\* C1. Closed-intent invariant: whatever the external classifier produced
\* (any label, the empty label, no INTENT line, no response at all), the
\* intent classify returns is one of the five closed intents, and never the
\* failure sentinel 'unknown'.
C1_ClosedIntent ==
    Classified =>
        /\ classification[1].intent \in
               {"loan_request", "kyc_update", "account_issue", "fraud_complaint",
                "general_inquiry"}
        /\ classification[1].intent # "unknown"

\* classify returned for a hallucinated label.
C1_Witness ==
    /\ Classified
    /\ response # None
    /\ upstream[1].intent = "refund_request"

\* C2. Confidence clamp: for every upstream confidence and label, the
\* confidence classify returns lies in [0.0, 1.0].
C2_ConfidenceClamped ==
    Classified =>
        /\ classification[1].confidence >= 0
        /\ classification[1].confidence <= 100

\* C3. Coercion rule: classify rewrites the result if and only if the upstream
\* label is outside the closed set; then the intent becomes general_inquiry and
\* the confidence max(0.5, 0.7 * upstream); a closed-set label leaves intent
\* and confidence as reported.
C3_CoercionRule ==
    Classified =>
        LET u == upstream[1]
            c == classification[1]
            valid == u.intent \in INTENT_CATEGORIES
            rewritten == c.intent # u.intent \/ c.confidence # u.confidence
        IN /\ rewritten <=> ~valid
           /\ ~valid =>
                 /\ c.intent = "general_inquiry"
                 /\ 10 * c.confidence =
                        IF 7 * u.confidence >= 500 THEN 7 * u.confidence ELSE 500
           /\ valid => c.intent = u.intent /\ c.confidence = u.confidence
           /\ c.sub_category = u.sub_category
           /\ c.reasoning = u.reasoning

\* A hallucinated label reported with confidence 0.8 has been coerced.
C3_Witness ==
    /\ Remapped
    /\ upstream[1].confidence = 80
    /\ classification[1].confidence = 56

\* C4 as stated: whenever classify remaps an invalid label, the resulting
\* confidence is never greater than the upstream confidence, for every upstream
\* confidence in [0.0, 1.0], the 0.0 of a failed call included.
C4_RemapNeverRaises ==
    (Remapped /\ upstream[1].confidence >= 0 /\ upstream[1].confidence <= 100) =>
        classification[1].confidence <= upstream[1].confidence

\* C4, amended. Whenever classify remaps an invalid label reported with a
\* confidence in [0.0, 1.0]: an upstream confidence of at least 0.5 is never
\* raised, and an upstream confidence below 0.5 (the 0.0 of a failed call
\* included) becomes exactly 0.5.
C4_RemapBoundedByFloor ==
    (Remapped /\ upstream[1].confidence >= 0 /\ upstream[1].confidence <= 100) =>
        /\ upstream[1].confidence >= 50 =>
               classification[1].confidence <= upstream[1].confidence
        /\ upstream[1].confidence < 50 => classification[1].confidence = 50

\* A hallucinated label reported with confidence 0.6 has been remapped.
C4_Witness ==
    /\ Remapped
    /\ upstream[1].intent = "refund_request"
    /\ upstream[1].confidence = 60
    /\ classification[1].confidence < 60

\* The parser left its loop on a ValueError of float().
ParseRaised(text) ==
    \E i \in 1..Len(text) :
        text[i].key = "CONFIDENCE:" /\ ~IsFloatLiteral(text[i].val)

\* No line of the text starts with a field prefix the parser knows.
NoFieldRecognised(text) ==
    \A i \in 1..Len(text) :
        text[i].key \notin {"INTENT:", "CONFIDENCE:", "SUB_CATEGORY:", "REASONING:"}

\* C5. Classification failure is recovered inside the policy: when the
\* external call raises, returns nothing, or returns text that cannot be parsed,
\* classify raises no exception and returns general_inquiry with a reasoning
\* string, with confidence 0.5 when the call produced no response.
C5_FailureRecovered ==
    /\ ~raised
    /\ (Classified /\ Falsy(response)) =>
           /\ classification[1].intent = "general_inquiry"
           /\ classification[1].confidence = 50
           /\ classification[1].reasoning = "Failed to classify"
    /\ (Classified /\ ~Falsy(response)
            /\ (ParseRaised(response[1]) \/ NoFieldRecognised(response[1]))) =>
           classification[1].intent = "general_inquiry"

(* ---------------------- the decision functions ------------------------ *)

\* The first rule of an ordered rule list whose condition holds.
RECURSIVE FirstMatch(_)
FirstMatch(rules) ==
    IF Head(rules).when THEN Head(rules).then ELSE FirstMatch(Tail(rules))

\* The priority of the e-mail in hand, 'medium' when it has none.
PriorityInHand == IF email[1].priority = None THEN "medium" ELSE email[1].priority[1]

\* The reason texts of should_escalate that contain 'fraud', case ignored.
MentionsFraud(reason) == reason[1] \in {"Fraud complaint requires immediate review"}

C8_FraudReason ==
    (pc = "classified" /\ escalation # None
         /\ classification[1].intent = "fraud_complaint"
         /\ classification[1].confidence >= 60) =>
        /\ escalation[1].escalate
        /\ MentionsFraud(escalation[1].reason)

\* C9. Action cascade: determine_action returns the first matching branch of
\* (1) confidence < 0.6, (2) fraud_complaint or critical, (3) loan_request,
\* (4) kyc_update, (5) account_issue by priority, (6) otherwise reply to
\* customer_support; the reason is never empty, the action type is one of
\* reply, escalate, log, forward, and the priority returned is the e-mail's
\* ('medium' when it has none).
C9_ActionCascade ==
    (pc = "classified" /\ action # None) =>
        LET i == classification[1].intent
            c == classification[1].confidence
            p == PriorityInHand
            a == action[1]
            expected == FirstMatch(<<
                [when |-> c < 60, then |-> <<"escalate", "human_review_team">>],
                [when |-> i = "fraud_complaint" \/ p = "critical",
                 then |-> <<"escalate",
                            IF i = "fraud_complaint" THEN "fraud_department"
                                                     ELSE "escalation_team">>],
                [when |-> i = "loan_request", then |-> <<"escalate", "loan_department">>],
                [when |-> i = "kyc_update", then |-> <<"reply", "kyc_team">>],
                [when |-> i = "account_issue" /\ p = "high",
                 then |-> <<"escalate", "customer_support_tier2">>],
                [when |-> i = "account_issue", then |-> <<"reply", "customer_support">>],
                [when |-> TRUE, then |-> <<"reply", "customer_support">>] >>)
        IN /\ <<a.action_type, a.assigned_to>> = expected
           /\ a.reason # ""
           /\ a.action_type \in {"reply", "escalate", "log", "forward"}
           /\ a.priority = p

\* determine_action has answered for a high-priority account issue on an
\* e-mail, and for none of the earlier branches.
C9_Witness ==
    /\ pc = "classified"
    /\ action # None
    /\ classification[1].intent = "account_issue"
    /\ classification[1].confidence = 60
    /\ email[1].priority = Some("high")
    /\ action[1].assigned_to = "customer_support_tier2"

\* C10. Action/Escalation consistency: for every intent, confidence and
\* priority (a missing priority included), whenever should_escalate returns
\* True, the action type determine_action chooses for the same inputs is not
\* 'reply'.
C10_EscalateNeverReply ==
    (pc = "classified" /\ escalation # None /\ action # None
         /\ escalation[1].escalate) =>
        action[1].action_type # "reply"

\* Both functions have answered, should_escalate with True for a confidence
\* just under 0.6, on an e-mail without a priority.
C10_Witness ==
    /\ pc = "classified"
    /\ escalation # None
    /\ action # None
    /\ escalation[1].escalate
    /\ classification[1].intent = "general_inquiry"
    /\ classification[1].confidence = 55
    /\ email[1].priority = None

(* ----------------------- quality of a classification ------------------ *)

\* C16. Classification quality score: analyze_classification_quality returns
\* quality_score = 60 * confidence + 20 for an intent of the closed set + 10
\* for a non-empty reasoning + 10 for a sub_category, within [0, 100] whenever
\* the confidence is within [0, 1]; confidence_level is high from 0.8, medium
\* from 0.6, else low; needs_review holds exactly when confidence < 0.6, that
\* is exactly when the level is low. Confidence >= 0.8 with a valid intent,
\* reasoning and sub_category scores at least 80 and needs no review; an
\* invalid intent at confidence 0.4 is low and needs review.
C16_QualityScore ==
    LastCall("analyze_classification_quality") =>
        LET cls == call[1].arg
            q == call[1].ret
            c == cls.confidence
        IN /\ q.quality_score =
                  6 * c
                  + (IF cls.intent \in INTENT_CATEGORIES THEN 200 ELSE 0)
                  + (IF cls.reasoning # "" THEN 100 ELSE 0)
                  + (IF cls.sub_category # None THEN 100 ELSE 0)
           /\ (0 <= c /\ c <= 100) => (0 <= q.quality_score /\ q.quality_score <= 1000)
           /\ q.confidence_level = (IF c >= 80 THEN "high"
                                    ELSE IF c >= 60 THEN "medium" ELSE "low")
           /\ q.needs_review <=> c < 60
           /\ q.needs_review <=> q.confidence_level = "low"
           /\ (/\ c >= 80
               /\ cls.intent \in INTENT_CATEGORIES
               /\ cls.reasoning # ""
               /\ cls.sub_category # None)
              => (q.quality_score >= 800 /\ ~q.needs_review)
           /\ (cls.intent \notin INTENT_CATEGORIES /\ c = 40)
              => (q.confidence_level = "low" /\ q.needs_review)

\* The score of a medium classification at the threshold 0.6 itself: a valid
\* intent with reasoning and no sub_category scores 66 and needs no review.
C16_Witness ==
    /\ LastCall("analyze_classification_quality")
    /\ call[1].arg.confidence = 60
    /\ call[1].arg.intent = "loan_request"
    /\ call[1].arg.reasoning # ""
    /\ call[1].arg.sub_category = None
    /\ call[1].ret.quality_score = 660
    /\ call[1].ret.confidence_level = "medium"
    /\ ~call[1].ret.needs_review

(* -------------------------- quality of a response --------------------- *)

Points(flag, worth) == IF flag THEN worth ELSE 0

\* C17. Response quality rubric: evaluate_response_quality returns
\* quality_score = 30*[greeting] + 20*[closing] + 20*[50 <= word_count <= 300]
\* + 15*[next-step language] + 15*[no informal marker], a score in 0..100,
\* with quality_level high from 80, medium from 60, else low. The length
\* component depends on word_count only: of two responses that differ in
\* word_count alone, evaluated one after the other, every other component is
\* the same and the scores differ by the length points alone, by exactly 20
\* for the word counts 40 and 150; the bounds 50 and 300 earn the points.
C17_ResponseRubric ==
    /\ [](LastCall("evaluate_response_quality") =>
            LET resp == call[1].arg
                q == call[1].ret
            IN /\ q.quality_score =
                      Points(q.has_greeting, 30) + Points(q.has_closing, 20)
                      + Points(50 <= resp.word_count /\ resp.word_count <= 300, 20)
                      + Points(q.has_next_steps, 15) + Points(q.professional_tone, 15)
               /\ q.appropriate_length <=> (50 <= resp.word_count /\ resp.word_count <= 300)
               /\ q.quality_score \in 0..100
               /\ q.quality_level = (IF q.quality_score >= 80 THEN "high"
                                     ELSE IF q.quality_score >= 60 THEN "medium"
                                     ELSE "low")
               /\ resp.word_count \in {50, 300} => q.appropriate_length)
    /\ [][(/\ LastCall("evaluate_response_quality")
           /\ call' # None
           /\ call'[1].fn = "evaluate_response_quality"
           /\ call'[1].arg.response_text = call[1].arg.response_text)
          => LET q == call[1].ret
                 r == call'[1].ret
             IN /\ r.has_greeting = q.has_greeting
                /\ r.has_closing = q.has_closing
                /\ r.has_next_steps = q.has_next_steps
                /\ r.professional_tone = q.professional_tone
                /\ r.quality_score - q.quality_score =
                       Points(r.appropriate_length, 20) - Points(q.appropriate_length, 20)
                /\ (call[1].arg.word_count = 40 /\ call'[1].arg.word_count = 150)
                   => r.quality_score = q.quality_score + 20]_vars

\* A response with greeting, closing, next steps and no informal marker at
\* word_count 40: 80 points, the 20 length points short of 100.
C17_Witness ==
    /\ LastCall("evaluate_response_quality")
    /\ call[1].arg.response_text = FullResponse
    /\ call[1].arg.word_count = 40
    /\ call[1].ret.quality_score = 80
    /\ ~call[1].ret.appropriate_length

(* ----------------------------- amounts -------------------------------- *)

\* C19. Unparseable amounts are dropped: the amounts collection of
\* extract_structured_data holds exactly the numeric values of the matched
\* currency-like tokens that parse, in order; a token that fails numeric
\* parsing contributes no element, so every 0.0 of the collection comes from
\* a token that denotes zero.
C19_UnparseableDropped ==
    LastCall("extract_structured_data") =>
        LET tokens == AmountMatches(call[1].arg)
            parsing == SelectSeq(tokens, LAMBDA tok : FloatParses(Cleaned(tok)))
        IN call[1].ret.amounts = [k \in 1..Len(parsing) |-> FloatOfAmount(Cleaned(parsing[k]))]

(* ----------------------------- summaries ------------------------------ *)

\* The sum of the counts of a dict of counts.
RECURSIVE TotalOver(_, _)
TotalOver(counts, keys) ==
    IF keys = {} THEN 0
    ELSE LET key == CHOOSE x \in keys : TRUE
         IN counts[key] + TotalOver(counts, keys \ {key})

Total(counts) == TotalOver(counts, DOMAIN counts)

\* How many results of a list are successes that pass a test.
Successes(rs, Test(_)) == Cardinality({k \in 1..Len(rs) : rs[k].success /\ Test(rs[k])})

\* C13. Summary conservation: for every list of results, generate_summary
\* gives successful + failed = total_emails = len(results); the per-intent
\* counts and the per-action counts each sum to successful; high_confidence +
\* low_confidence <= successful; a failed result adds to no intent, action or
\* confidence counter; every count is of what the results record (the
\* recorded action_type, whatever determine_action would return).
C13_SummaryConservation ==
    LastCall("generate_summary") =>
        LET rs == call[1].arg
            s == call[1].ret
        IN /\ s.successful + s.failed = s.total_emails
           /\ s.total_emails = Len(rs)
           /\ Total(s.intents) = s.successful
           /\ Total(s.actions) = s.successful
           /\ s.high_confidence + s.low_confidence <= s.successful
           /\ s.successful = Successes(rs, LAMBDA r : TRUE)
           /\ \A intent \in DOMAIN s.intents :
                  s.intents[intent] =
                      Successes(rs, LAMBDA r : r.classification[1].intent = intent)
           /\ \A type \in DOMAIN s.actions :
                  s.actions[type] = Successes(rs, LAMBDA r : r.action[1].action_type = type)
           /\ s.avg_confidence.den = (IF s.successful = 0 THEN 1 ELSE s.successful)

\* Two successes and a result that failed after its classification: the
\* failure is counted as failed and in no intent.
C13_Witness ==
    /\ LastCall("generate_summary")
    /\ Len(call[1].arg) = 3
    /\ \E k \in 1..3 : /\ ~call[1].arg[k].success
                       /\ call[1].arg[k].classification # None
    /\ \E k \in 1..3 : call[1].arg[k] = OverriddenResult
    /\ call[1].ret.failed = 1
    /\ call[1].ret.successful = 2
    /\ Total(call[1].ret.intents) = 2
    /\ "reply" \in DOMAIN call[1].ret.actions

C15_TestIntentSummary ==
    (LastCall("get_intent_summary") /\ call[1].arg = TestClassifications) =>
        LET s == call[1].ret
        IN /\ s.total = 4
           /\ s.by_intent["loan_request"] = 2
           /\ s.by_intent["kyc_update"] = 1
           /\ 80 * s.avg_confidence.den < s.avg_confidence.num
           /\ s.avg_confidence.num < 90 * s.avg_confidence.den
           /\ s.high_confidence = 2

(* ----------------------------- batch runs ----------------------------- *)

\* The step of its processing in which an e-mail raises: evidence
\* extraction, classification, response generation, action resolution, the
\* opening of the database session; "none" when no exception leaves a step.
RaisingStep(item) ==
    IF \E k \in 1..Len(item.attachments) : item.attachments[k].kind = "not_a_string"
    THEN "extract"
    ELSE IF item.fault \in {"classify", "respond", "action", "session"} THEN item.fault
    ELSE "none"

NonRaising(b) == {i \in 1..Len(b) : RaisingStep(b[i]) = "none"}

\* C11. Batch isolation in the pipeline: for every ordered batch,
\* process_all_emails returns one result per e-mail, in input order; an e-mail
\* whose processing raises yields a result with success = False, its email_id
\* and the error text; the others are processed, each with the result it has
\* when processed alone; generate_summary reports successful = the number of
\* non-raising e-mails and failed = the number of raising ones (of 5 e-mails
\* with the third raising during evidence extraction: 4 and 1).
C11_BatchIsolation ==
    /\ Len(results) = (IF runner = "pipeline" /\ step \in {"extract", "classify", "respond",
                                                          "action", "store", "return"}
                       THEN idx - 1 ELSE idx)
    /\ \A i \in 1..Len(results) :
           /\ results[i].email_id = i
           /\ IF RaisingStep(batch[i]) = "none"
              THEN /\ results[i].success
                   /\ results[i].error = None
                   /\ results[i].classification # None
                   /\ results[i].response # None
                   /\ results[i].action # None
              ELSE /\ ~results[i].success
                   /\ results[i].error = Some(ErrorText(RaisingStep(batch[i])))
    /\ step = "returned" =>
           /\ Len(results) = Len(batch)
           /\ \A i \in 1..Len(batch) :
                  results[i] = process_email(EmailOf(i, batch[i]), batch[i])
    /\ summary # None =>
           /\ summary[1].total_emails = Len(batch)
           /\ summary[1].successful = Cardinality(NonRaising(batch))
           /\ summary[1].failed = Len(batch) - Cardinality(NonRaising(batch))
           /\ batch = ExampleBatch =>
                  /\ summary[1].successful = 4
                  /\ summary[1].failed = 1
                  /\ \A i \in 1..5 : results[i].success <=> i # 3

\* The summary of the five e-mails the third of which raised during evidence
\* extraction: 4 successes, 1 failure, result 3 carrying the error.
C11_Witness ==
    /\ runner = "pipeline"
    /\ batch = ExampleBatch
    /\ summary # None
    /\ summary[1].successful = 4
    /\ summary[1].failed = 1
    /\ ~results[3].success
    /\ results[3].email_id = 3
    /\ results[3].error = Some(ErrorText("extract"))
    /\ results[4].success

\* C12. No silent data loss in the dashboard batch run: after
\* BankingDashboard.process_all_emails every input e-mail has its record in
\* st.session_state.processed_emails, so that the list is as long as the
\* input.
C12_DashboardKeepsFailures ==
    (runner = "dashboard" /\ step = "returned") =>
        /\ Len(processed_emails) = Len(batch)
        /\ \A i \in 1..Len(batch) :
               \E k \in 1..Len(processed_emails) : processed_emails[k].email.email_id = i

\* An e-mail none of whose attachments can be read: no attachment, or only
\* names without a file and PDFs without text.
NothingReadable(email_data) ==
    \A k \in 1..Len(email_data.attachments) :
        \/ email_data.attachments[k].kind = "missing"
        \/ email_data.attachments[k].kind = "pdf" /\ email_data.attachments[k].text = ""

\* An evidence bag with every collection present and empty.
EmptyBag(evidence) ==
    /\ evidence # None
    /\ {"account_numbers", "amounts"} \subseteq DOMAIN evidence[1].structured_data
    /\ evidence[1].structured_data.account_numbers = {}
    /\ evidence[1].structured_data.amounts = <<>>

\* C18. Empty bag, not null: for an e-mail without attachments, or none of
\* whose attachments can be read, the evidence process_email hands to the
\* classifier and to the response composer is an evidence bag with every
\* collection present and empty, never None.
C18_EmptyBagNotNull ==
    (/\ runner = "pipeline"
     /\ step \in {"classify", "respond"}
     /\ NothingReadable(cur[1].email))
    => EmptyBag(cur[1].extracted_data)

\* The external generator fails or returns nothing.
GeneratorFails(item) == item.gen.kind # "text" \/ item.gen.text = ""

\* C20. Response generation failure degrades to the fallback: when the
\* external generator fails or returns nothing, for an e-mail of any intent,
\* generate raises nothing and returns the fallback reply, non-empty and with
\* word_count > 0, and the pipeline records the e-mail as a success.
C20_FallbackResponse ==
    /\ (/\ runner = "pipeline"
        /\ step \in {"action", "store"}
        /\ GeneratorFails(batch[idx]))
       => /\ ~cur[1].raised
          /\ cur[1].response # None
          /\ cur[1].response[1].response_text = FallbackResponse
          /\ cur[1].response[1].response_text # ""
          /\ cur[1].response[1].word_count > 0
    /\ \A i \in 1..Len(results) :
           (runner = "pipeline" /\ GeneratorFails(batch[i]) /\ RaisingStep(batch[i]) = "none")
           => /\ results[i].success
              /\ results[i].response # None
              /\ results[i].response[1].text = FallbackResponse
              /\ results[i].response[1].word_count > 0

\* Fallback replies recorded as successes for e-mails of two different
\* intents, one after a generator error and one after an empty completion.
C20_Witness ==
    /\ runner = "pipeline"
    /\ Len(results) = 2
    /\ batch[1].gen = ApiError
    /\ batch[2].gen = Completion("")
    /\ results[1].success /\ results[2].success
    /\ results[1].response[1].text = FallbackResponse
    /\ results[2].response[1].text = FallbackResponse
    /\ results[1].classification[1].intent # results[2].classification[1].intent
    /\ results[2].response[1].word_count = 19

(* ------------------------ evidence and response ----------------------- *)

\* The structured evidence of the e-mail in hand holds this collection.
EvidenceHolds(f, key) ==
    /\ f.extracted_data # None
    /\ key \in DOMAIN f.extracted_data[1].structured_data

\* C21. Personalization from evidence: whenever the evidence extracted for
\* an e-mail holds an account number (an amount), the response the pipeline
\* produces for it carries personalization account_number equal to the first
\* account number (amount equal to the first amount) of that evidence.
C21_PersonalizedFromEvidence ==
    (runner = "pipeline" /\ cur # None /\ cur[1].response # None) =>
        LET f == cur[1]
            p == f.response[1].personalization_data
        IN /\ (/\ EvidenceHolds(f, "account_numbers")
               /\ f.extracted_data[1].structured_data.account_numbers # {}) =>
                  /\ p.account_number # None
                  /\ p.account_number[1] \subseteq
                         f.extracted_data[1].structured_data.account_numbers
           /\ (/\ EvidenceHolds(f, "amounts")
               /\ f.extracted_data[1].structured_data.amounts # <<>>) =>
                  p.amount = Some(f.extracted_data[1].structured_data.amounts[1])

(* ---------------------------- cancellation ---------------------------- *)

\* C22. Cancellation keeps completed outcomes: when the dashboard's batch
\* run is aborted between two items after k e-mails, the outcome list of the
\* run (st.session_state.processed_emails) holds the k outcomes produced so
\* far, unchanged and in order.
C22_AbortKeepsOutcomes ==
    (runner = "dashboard" /\ step = "aborted") => processed_emails = results

(* --------------------- statistics of an empty run --------------------- *)

\* C30. Summaries never fail on a run without successes: after a completed
\* batch run whose outcome list is empty, generate_summary gives
\* avg_confidence 0.0 with every counter 0, and the dashboard's analytics
\* over processed_emails complete without raising.
C30_StatisticsOfEmptyRun ==
    (step = "returned" /\ summary # None) =>
        /\ (runner = "pipeline" /\ results = <<>>) =>
               /\ summary[1].avg_confidence.num = 0
               /\ summary[1].total_emails = 0
               /\ summary[1].successful = 0
               /\ summary[1].failed = 0
               /\ summary[1].high_confidence = 0
               /\ summary[1].low_confidence = 0
        /\ (runner = "dashboard" /\ processed_emails = <<>>) => ~summary[1].raised

(* ----------------------- escalation and action ------------------------ *)

\* C24. Escalation and action never contradict each other: for every intent
\* (labels outside the closed set included), confidence and priority,
\* determine_action returns action_type 'escalate' if and only if
\* should_escalate returns True; general_inquiry with confidence 0.95 or 0.9
\* and priority low gives no escalation and the action reply, assigned to
\* customer_support.
C24_EscalateIffEscalation ==
    (pc = "classified" /\ escalation # None /\ action # None) =>
        /\ (action[1].action_type = "escalate") <=> escalation[1].escalate
        /\ (/\ classification[1].intent = "general_inquiry"
            /\ classification[1].confidence \in {90, 95}
            /\ email[1].priority = Some("low")) =>
               /\ ~escalation[1].escalate
               /\ action[1].action_type = "reply"
               /\ action[1].assigned_to = "customer_support"

\* Both functions have answered for (general_inquiry, 0.95, low): no
\* escalation, and a reply.
C24_Witness ==
    /\ pc = "classified"
    /\ escalation # None
    /\ action # None
    /\ classification[1].intent = "general_inquiry"
    /\ classification[1].confidence = 95
    /\ email[1].priority = Some("low")
    /\ ~escalation[1].escalate
    /\ action[1].action_type = "reply"

(* --------------------------- order of steps --------------------------- *)

\* C25. Per-email step ordering: within one e-mail the evidence is extracted
\* before the classification, the action is resolved only after the
\* classification has produced its result, the response is composed only
\* after both the classification and the action exist, and every step of
\* e-mail i is over before any step of e-mail i+1 starts.
C25_StepOrdering ==
    (runner = "pipeline" /\ cur # None) =>
        LET r == cur[1].result
        IN /\ step = "extract" => r.classification = None
           /\ r.action # None => r.classification # None
           /\ r.response # None => (r.classification # None /\ r.action # None)
           /\ Len(results) = idx - 1
           /\ cur[1].email.email_id = idx

(* ------------------------ calls of the classifier --------------------- *)

\* The external classifier gave no completion for the e-mail being processed.
NoCompletion(item) == item.llm.kind # "text"

C27_OutageRoutesToHumans ==
    runner = "pipeline" =>
        \A k \in 1..Len(results) :
            (NoCompletion(batch[k]) /\ RaisingStep(batch[k]) = "none") =>
                LET r == results[k]
                IN /\ r.success
                   /\ r.classification # None
                   /\ r.classification[1].intent = "general_inquiry"
                   /\ r.classification[1].confidence = 50
                   /\ r.action # None
                   /\ r.action[1].action_type = "escalate"
                   /\ r.action[1].assigned_to = "human_review_team"
                   /\ should_escalate(r.classification[1], EmailOf(k, batch[k])) =
                          [escalate |-> TRUE,
                           reason |-> <<"Low confidence classification", 50>>]

\* A batch with an e-mail of every priority has been processed while the
\* backend raised an API error on every call.
C27_Witness ==
    /\ runner = "pipeline"
    /\ step = "returned"
    /\ batch = OutageBatch(ApiError)
    /\ Len(results) = Len(OutagePriorities)
    /\ \A k \in 1..Len(results) : results[k].action[1].action_type = "escalate"
    /\ results[2].action[1].priority = "critical"

(* --------------------------- stored rows ------------------------------ *)

\* The number of rows of a table that belong to an e-mail.
RowCount(table, email_id) == Count(db, LAMBDA row : row = Row(table, email_id))

\* C28. Persisting one e-mail's results is all-or-nothing: once
\* _store_results has returned, either no row of the e-mail is in the
\* database (a write failed), or exactly one email row and one
\* classification, response and action row for it are (with at most one row
\* of extracted data); an email_id stored already gains no rows.
C28_StoreAllOrNothing ==
    runner = "pipeline" =>
        \A id \in 1..Len(batch) :
            \/ \A k \in 1..Len(db) : db[k].email_id # id
            \/ /\ RowCount("emails", id) = 1
               /\ RowCount("classifications", id) = 1
               /\ RowCount("responses", id) = 1
               /\ RowCount("actions", id) = 1
               /\ RowCount("extracted_data", id) <= 1

(* ---------------------- evidence of several attachments --------------- *)

\* The attachments of an e-mail that can be read.
Readable(attachments) == SelectSeq(attachments, LAMBDA a : a.kind = "pdf")

\* C29. Evidence from several attachments is merged without loss: for an
\* e-mail with two or more readable attachments, the structured evidence
\* holds the account numbers and the amounts extracted from every
\* attachment, and the raw text is the concatenation of the attachments'
\* texts in attachment order.
C29_EvidenceMerged ==
    (/\ runner = "pipeline"
     /\ cur # None
     /\ cur[1].extracted_data # None
     /\ Len(Readable(cur[1].email.attachments)) >= 2) =>
        LET docs == Readable(cur[1].email.attachments)
            evidence == cur[1].extracted_data[1]
        IN /\ evidence.all_text = AllText(docs)
           /\ \A k \in 1..Len(docs) :
                  LET part == extract_structured_data(docs[k].text)
                  IN /\ part.account_numbers \subseteq
                            evidence.structured_data.account_numbers
                     /\ \A a \in 1..Len(part.amounts) :
                            \E b \in 1..Len(evidence.structured_data.amounts) :
                                evidence.structured_data.amounts[b] = part.amounts[a]

(* ----------------------------- ingestion ------------------------------ *)

\* A stored record that is neither malformed nor short of a required field.
WellFormed(record) ==
    /\ record.json_ok
    /\ RequiredFields \subseteq record.fields
    /\ record.date_ok

\* C23. Ingestion errors: a stored record that is malformed or lacks a
\* required field is skipped by the loader and never reaches process_email,
\* the other records are loaded in order, a missing source gives an empty
\* sequence, and every skipped record is counted in the failure count of the
\* batch summary.
C23_IngestionErrors ==
    LastCall("main") =>
        LET source == call[1].arg
            ret == call[1].ret
            files == IF source = None THEN <<>> ELSE source[1]
            kept == SelectSeq(files, WellFormed)
            skipped == Len(files) - Len(kept)
        IN /\ source = None => ret.emails = <<>>
           /\ ret.emails = [k \in 1..Len(kept) |-> kept[k].item]
           /\ Len(ret.results) = Len(ret.emails)
           /\ ret.summary.failed =
                  skipped + Count(ret.results, LAMBDA r : ~r.success)

====
